---- MODULE Spec2Model ----
(***************************************************************************)
(* Model of homework.py: the Training hierarchy (Training, Running,        *)
(* SportsWalking, Swimming), InfoMessage, read_package, main and the       *)
(* __main__ loop over the hardcoded packages.                              *)
(*                                                                         *)
(* Numbers.  Python ints and floats are modelled as exact rationals        *)
(* <<n, d>> in lowest terms with d > 0.  The rounding error of binary64    *)
(* arithmetic, infinities, NaN and the sign of a zero are not modelled;    *)
(* a ZeroDivisionError is.                                                 *)
(*                                                                         *)
(* Calls.  The outcome of an expression or a call is a record              *)
(* [exc, val]: exc = "none" and val the value, or exc the name of the      *)
(* exception raised (val is then a placeholder).  Operands are evaluated   *)
(* left to right, as Python does, so the first exception wins.             *)
(***************************************************************************)
EXTENDS Integers, Sequences, FiniteSets

(***************************************************************************)
(* Bounds of the explored inputs.                                          *)
(***************************************************************************)
MaxDataLen == 6
MaxDataValue == 1
MaxActionK == 3
MaxDurationHalves == 2
MaxWeightK == 1
MaxHeight == 2
MaxPoolK == 1

(***************************************************************************)
(* Exact rational arithmetic.                                              *)
(***************************************************************************)
Abs(n) == IF n < 0 THEN -n ELSE n

RECURSIVE Gcd(_, _)
Gcd(a, b) == IF b = 0 THEN a ELSE Gcd(b, a % b)

Rat(n, d) ==
    LET g == Gcd(Abs(n), Abs(d))
        s == IF d < 0 THEN -1 ELSE 1
    IN  <<(s * n) \div g, (s * d) \div g>>

Whole(n) == <<n, 1>>

Zero == Whole(0)

IsZero(x) == x[1] = 0

Less(x, y) == x[1] * y[2] < y[1] * x[2]

Add(x, y) == Rat(x[1] * y[2] + y[1] * x[2], x[2] * y[2])

Sub(x, y) == Rat(x[1] * y[2] - y[1] * x[2], x[2] * y[2])

Mul(x, y) ==
    LET g1 == Gcd(Abs(x[1]), y[2])
        g2 == Gcd(Abs(y[1]), x[2])
    IN  Rat((x[1] \div g1) * (y[1] \div g2), (x[2] \div g2) * (y[2] \div g1))

Inverse(x) == Rat(x[2], x[1])

Floor(x) == Whole(x[1] \div x[2])

(***************************************************************************)
(* Outcomes of expressions: a value or a raised exception.                 *)
(***************************************************************************)
Return(v) == [exc |-> "none", val |-> v]

Raise(e) == [exc |-> e, val |-> Zero]

Raised(r) == r.exc # "none"

\* x + y
PyAdd(x, y) ==
    IF Raised(x) THEN x ELSE IF Raised(y) THEN y
    ELSE Return(Add(x.val, y.val))

\* x - y
PySub(x, y) ==
    IF Raised(x) THEN x ELSE IF Raised(y) THEN y
    ELSE Return(Sub(x.val, y.val))

\* x * y
PyMul(x, y) ==
    IF Raised(x) THEN x ELSE IF Raised(y) THEN y
    ELSE Return(Mul(x.val, y.val))

\* x / y: ZeroDivisionError when y is zero
PyTrueDiv(x, y) ==
    IF Raised(x) THEN x ELSE IF Raised(y) THEN y
    ELSE IF IsZero(y.val) THEN Raise("ZeroDivisionError")
    ELSE Return(Mul(x.val, Inverse(y.val)))

\* x // y: the floor of the quotient; ZeroDivisionError when y is zero
PyFloorDiv(x, y) ==
    IF Raised(x) THEN x ELSE IF Raised(y) THEN y
    ELSE IF IsZero(y.val) THEN Raise("ZeroDivisionError")
    ELSE Return(Floor(Mul(x.val, Inverse(y.val))))

\* x ** k for a small non-negative integer k
RECURSIVE PyPow(_, _)
PyPow(x, k) ==
    IF Raised(x) THEN x
    ELSE IF k = 0 THEN Return(Whole(1))
    ELSE PyMul(x, PyPow(x, k - 1))

(***************************************************************************)
(* Class attributes.                                                       *)
(***************************************************************************)
Training_LEN_STEP == Rat(65, 100)

\* faulty variant: Swimming does not override LEN_STEP
Swimming_LEN_STEP_Inherited == Rat(65, 100)

Swimming_LEN_STEP == Rat(138, 100)

M_IN_KM == Whole(1000)

TOTTALLY_MINUTES_IN_HOURS == Whole(60)

COEFF_CALORIE_RUN_1 == Whole(18)

COEFF_CALORIE_RUN_2 == Whole(20)

COEFF_CALORIE_WALK_1 == Rat(35, 1000)

COEFF_CALORIE_WALK_2 == Rat(29, 1000)

COEFF_CALORIE_WALK_3 == 2

COEFF_CALORIE_SWIM_1 == Rat(11, 10)

COEFF_CALORIE_SWIM_2 == Whole(2)

\* self.LEN_STEP: Swimming overrides the attribute of Training
LEN_STEP(self) ==
    IF self.cls = "Swimming" THEN Swimming_LEN_STEP ELSE Training_LEN_STEP

(***************************************************************************)
(* Objects: [cls, fields].  The generated __init__ of a dataclass takes    *)
(* the fields positionally, in declaration order, none with a default.     *)
(***************************************************************************)
TrainingClasses == {"Training", "Running", "SportsWalking", "Swimming"}

\* faulty variant: Swimming declares count_pool before length_pool
FieldOrder_PoolSwapped(cls) ==
    IF cls = "SportsWalking"
    THEN <<"action", "duration", "weight", "height">>
    ELSE IF cls = "Swimming"
    THEN <<"action", "duration", "weight", "count_pool", "length_pool">>
    ELSE <<"action", "duration", "weight">>

FieldOrder(cls) ==
    IF cls = "SportsWalking"
    THEN <<"action", "duration", "weight", "height">>
    ELSE IF cls = "Swimming"
    THEN <<"action", "duration", "weight", "length_pool", "count_pool">>
    ELSE <<"action", "duration", "weight">>

Object(cls, fields) == [cls |-> cls, fields |-> fields]

NoneObject == Object("NoneType", <<>>)

StrObject(s) == Object("str", [value |-> s])

IndexOf(seq, name) == CHOOSE i \in 1..Len(seq) : seq[i] = name

\* cls(*data): TypeError unless exactly one value per field is given
Construct(cls, data) ==
    LET order == FieldOrder(cls)
    IN  IF Len(data) # Len(order)
        THEN [exc |-> "TypeError", val |-> NoneObject]
        ELSE [exc |-> "none",
              val |-> Object(cls, [f \in {order[i] : i \in 1..Len(order)}
                                      |-> data[IndexOf(order, f)]])]

(***************************************************************************)
(* Training and its subclasses.  self.m() resolves m on the class of self, *)
(* so the base methods call the overriding ones.                           *)
(***************************************************************************)
\* faulty variant: floor division by M_IN_KM
Training_get_distance_FloorDiv(self) ==
    PyFloorDiv(PyMul(Return(self.fields.action), Return(LEN_STEP(self))),
               Return(M_IN_KM))

\* Training.get_distance: self.action * self.LEN_STEP / self.M_IN_KM
Training_get_distance(self) ==
    PyTrueDiv(PyMul(Return(self.fields.action), Return(LEN_STEP(self))),
              Return(M_IN_KM))

\* Swimming.get_distance: the same expression, with Swimming's LEN_STEP
Swimming_get_distance(self) ==
    PyTrueDiv(PyMul(Return(self.fields.action), Return(LEN_STEP(self))),
              Return(M_IN_KM))

get_distance(self) ==
    IF self.cls = "Swimming" THEN Swimming_get_distance(self)
    ELSE Training_get_distance(self)

\* faulty variant: a zero duration yields speed 0 instead of an error
Training_get_mean_speed_ZeroGuard(self) ==
    IF IsZero(self.fields.duration) THEN Return(Zero)
    ELSE PyTrueDiv(get_distance(self), Return(self.fields.duration))

\* Training.get_mean_speed: self.get_distance() / self.duration
Training_get_mean_speed(self) ==
    PyTrueDiv(get_distance(self), Return(self.fields.duration))

\* Swimming.get_mean_speed:
\* self.length_pool * self.count_pool / self.M_IN_KM / self.duration
Swimming_get_mean_speed(self) ==
    PyTrueDiv(PyTrueDiv(PyMul(Return(self.fields.length_pool),
                              Return(self.fields.count_pool)),
                        Return(M_IN_KM)),
              Return(self.fields.duration))

get_mean_speed(self) ==
    IF self.cls = "Swimming" THEN Swimming_get_mean_speed(self)
    ELSE Training_get_mean_speed(self)

\* faulty variant: the base class returns 0 instead of raising
Training_get_spent_calories_Zero(self) == Return(Zero)

\* Training.get_spent_calories
Training_get_spent_calories(self) == Raise("NotImplementedError")

\* Running.get_spent_calories:
\* (C1 * speed - C2) * weight / M_IN_KM * duration * MINUTES
Running_get_spent_calories(self) ==
    PyMul(PyMul(PyTrueDiv(PyMul(PySub(PyMul(Return(COEFF_CALORIE_RUN_1),
                                            get_mean_speed(self)),
                                      Return(COEFF_CALORIE_RUN_2)),
                                Return(self.fields.weight)),
                          Return(M_IN_KM)),
                Return(self.fields.duration)),
          Return(TOTTALLY_MINUTES_IN_HOURS))

\* faulty variant: true division of speed ** 2 by height
SportsWalking_get_spent_calories_TrueDiv(self) ==
    PyMul(PyMul(PyAdd(PyMul(Return(COEFF_CALORIE_WALK_1),
                            Return(self.fields.weight)),
                      PyMul(PyMul(PyTrueDiv(PyPow(get_mean_speed(self),
                                                  COEFF_CALORIE_WALK_3),
                                            Return(self.fields.height)),
                                  Return(COEFF_CALORIE_WALK_2)),
                            Return(self.fields.weight))),
                Return(self.fields.duration)),
          Return(TOTTALLY_MINUTES_IN_HOURS))

\* SportsWalking.get_spent_calories:
\* (C1 * weight + (speed ** C3 // height) * C2 * weight) * duration * MINUTES
SportsWalking_get_spent_calories(self) ==
    PyMul(PyMul(PyAdd(PyMul(Return(COEFF_CALORIE_WALK_1),
                            Return(self.fields.weight)),
                      PyMul(PyMul(PyFloorDiv(PyPow(get_mean_speed(self),
                                                   COEFF_CALORIE_WALK_3),
                                             Return(self.fields.height)),
                                  Return(COEFF_CALORIE_WALK_2)),
                            Return(self.fields.weight))),
                Return(self.fields.duration)),
          Return(TOTTALLY_MINUTES_IN_HOURS))

\* Swimming.get_spent_calories: (speed + C1) * C2 * weight
Swimming_get_spent_calories(self) ==
    PyMul(PyMul(PyAdd(get_mean_speed(self), Return(COEFF_CALORIE_SWIM_1)),
                Return(COEFF_CALORIE_SWIM_2)),
          Return(self.fields.weight))

get_spent_calories(self) ==
    IF self.cls = "Running" THEN Running_get_spent_calories(self)
    ELSE IF self.cls = "SportsWalking" THEN SportsWalking_get_spent_calories(self)
    ELSE IF self.cls = "Swimming" THEN Swimming_get_spent_calories(self)
    ELSE Training_get_spent_calories(self)

\* InfoMessage(training_type, duration, distance, speed, calories): the
\* arguments are evaluated in this order and the first exception propagates
InfoMessage(training_type, duration, distance, speed, calories) ==
    IF Raised(duration) THEN [exc |-> duration.exc, val |-> NoneObject]
    ELSE IF Raised(distance) THEN [exc |-> distance.exc, val |-> NoneObject]
    ELSE IF Raised(speed) THEN [exc |-> speed.exc, val |-> NoneObject]
    ELSE IF Raised(calories) THEN [exc |-> calories.exc, val |-> NoneObject]
    ELSE [exc |-> "none",
          val |-> Object("InfoMessage",
                         [training_type |-> training_type,
                          duration |-> duration.val,
                          distance |-> distance.val,
                          speed |-> speed.val,
                          calories |-> calories.val])]

\* Training.show_training_info
show_training_info(self) ==
    InfoMessage(self.cls,
                Return(self.fields.duration),
                get_distance(self),
                get_mean_speed(self),
                get_spent_calories(self))

\* '{x:.3f}': x rounded to thousandths, ties to the even digit; the text is
\* the sign and the number of thousandths
Format3f(x) ==
    LET a == Abs(x[1]) * 1000
        q == a \div x[2]
        r == a % x[2]
        m == IF 2 * r < x[2] THEN q
             ELSE IF 2 * r > x[2] THEN q + 1
             ELSE IF q % 2 = 0 THEN q ELSE q + 1
    IN  [neg |-> x[1] < 0, milli |-> m]

\* InfoMessage.get_message: the template with the five values substituted;
\* the text is given by the label and the four formatted numbers
get_message(self) ==
    [training_type |-> self.fields.training_type,
     duration |-> Format3f(self.fields.duration),
     distance |-> Format3f(self.fields.distance),
     speed |-> Format3f(self.fields.speed),
     calories |-> Format3f(self.fields.calories)]

\* faulty variant: get_mean_speed converts self.duration to minutes in place
SelfAfterCall_DurationInMinutes(self, method) ==
    IF method \in {"get_mean_speed", "show_training_info"}
    THEN [self EXCEPT !.fields.duration = Mul(@, TOTTALLY_MINUTES_IN_HOURS)]
    ELSE self

\* No method of Training, of its subclasses or of InfoMessage assigns to an
\* attribute of self: the object after a call is the object before it
SelfAfterCall(self, method) == self

(***************************************************************************)
(* read_package and the attribute lookup main() performs on its result.    *)
(***************************************************************************)
UNKNOWN_WORKOUT_TEXT == "Takoi trenirovki net!"

WorkoutCodes == {"SWM", "RUN", "WLK"}

\* the dictionary workout_code
workout_code(workout_type) ==
    IF workout_type = "SWM" THEN "Swimming"
    ELSE IF workout_type = "RUN" THEN "Running"
    ELSE "SportsWalking"

\* faulty variant: except Exception, so a construction error becomes the text too
read_package_ExceptAll(workout_type, data) ==
    IF workout_type \notin WorkoutCodes
    THEN [exc |-> "none", val |-> StrObject(UNKNOWN_WORKOUT_TEXT)]
    ELSE IF Raised(Construct(workout_code(workout_type), data))
    THEN [exc |-> "none", val |-> StrObject(UNKNOWN_WORKOUT_TEXT)]
    ELSE Construct(workout_code(workout_type), data)

\* try: return workout_code[workout_type](*data)
\* except KeyError: return 'Такой тренировки нет!'
read_package(workout_type, data) ==
    IF workout_type \notin WorkoutCodes
    THEN [exc |-> "none", val |-> StrObject(UNKNOWN_WORKOUT_TEXT)]
    ELSE Construct(workout_code(workout_type), data)

\* training.show_training_info(): AttributeError unless the class of the
\* object defines the method
Call_show_training_info(obj) ==
    IF obj.cls \notin TrainingClasses
    THEN [exc |-> "AttributeError", val |-> NoneObject]
    ELSE show_training_info(obj)

\* faulty variant: the line is put before the lines already printed
StdoutAfterWrite_Prepend(out, line) == <<line>> \o out

\* print(line): the line is appended to standard output
StdoutAfterWrite(out, line) == Append(out, line)

(***************************************************************************)
(* Inputs.                                                                 *)
(***************************************************************************)
\* the list of the __main__ block
DriverPackages ==
    << <<"SWM", <<Whole(720), Whole(1), Whole(80), Whole(25), Whole(40)>> >>,
       <<"RUN", <<Whole(15000), Whole(1), Whole(75)>> >>,
       <<"WLK", <<Whole(9000), Whole(1), Whole(75), Whole(180)>> >> >>

\* codes given to read_package: the three known ones and two unknown ones
TestCodes == WorkoutCodes \cup {"XYZ", "swm"}

\* data given to read_package: any number of values up to MaxDataLen, the
\* first (the action count) in thousands, the others small integers
DataActions == {Whole(1000 * k) : k \in 0..MaxDataValue}

DataValues == {Whole(k) : k \in 0..MaxDataValue}

DataSeqs ==
    {<<>>} \cup
    UNION {{<<a>> \o t : a \in DataActions, t \in [1..n -> DataValues]} :
             n \in 0..(MaxDataLen - 1)}

\* the lists the loop is run over: the hardcoded one, and one package of any
\* code with data of any length
PackageLists ==
    {DriverPackages} \cup
    {<< <<c, d>> >> : c \in TestCodes, d \in DataSeqs}

\* field values of instances constructed directly
ApiActions == {Whole(1000 * k) : k \in -1..MaxActionK}

ApiDurations == {Rat(k, 2) : k \in 0..MaxDurationHalves}

ApiWeights == {Whole(75 * k) : k \in 0..MaxWeightK}

ApiHeights == {Whole(k) : k \in -1..MaxHeight}

ApiPoolLengths == {Whole(25 * k) : k \in 0..MaxPoolK}

ApiPoolCounts == {Whole(40 * k) : k \in 0..MaxPoolK}

ApiData(cls) ==
    IF cls = "SportsWalking"
    THEN {<<a, d, w, h>> : a \in ApiActions, d \in ApiDurations,
                           w \in ApiWeights, h \in ApiHeights}
    ELSE IF cls = "Swimming"
    THEN {<<a, d, w, l, c>> : a \in ApiActions, d \in ApiDurations,
                              w \in ApiWeights, l \in ApiPoolLengths,
                              c \in ApiPoolCounts}
    ELSE {<<a, d, w>> : a \in ApiActions, d \in ApiDurations,
                        w \in ApiWeights}

ApiInstances(cls) == {Construct(cls, d).val : d \in ApiData(cls)}

(***************************************************************************)
(* State.                                                                  *)
(*   packages, idx  the list the loop runs over and the position in it     *)
(*   pc             "loop", "main_show", "main_print", "done", "raised"    *)
(*                  for a run of the loop; "api" when a caller holds an    *)
(*                  instance it constructed and calls its methods          *)
(*   training       the object bound to `training`                         *)
(*   info           the object bound to `info` (the last report)           *)
(*   stdout         the lines printed                                      *)
(*   exc            the exception that ended the run, or "none"            *)
(*   called, ret    the method last called directly and its outcome: the   *)
(*                  exception or, for the three numeric methods, the       *)
(*                  number returned                                        *)
(*   message        the text the last direct get_message() returned        *)
(* History, read by the properties only:                                   *)
(*   constructed    the object as its constructor returned it              *)
(*   prev_info      the report of the show_training_info() call before the *)
(*                  last one                                               *)
(***************************************************************************)
NoMessage == [training_type |-> "none"]

VARIABLES packages, idx, pc, training, info, stdout, exc, called, ret,
          message, constructed, prev_info

vars == <<packages, idx, pc, training, info, stdout, exc, called, ret,
          message, constructed, prev_info>>

InitLoop ==
    /\ packages \in PackageLists
    /\ idx = 1
    /\ pc = "loop"
    /\ training = NoneObject
    /\ info = NoneObject
    /\ stdout = <<>>
    /\ exc = "none"
    /\ called = "none"
    /\ ret = Return(Zero)
    /\ message = NoMessage
    /\ constructed = NoneObject
    /\ prev_info = NoneObject

InitApi ==
    /\ packages = <<>>
    /\ idx = 1
    /\ pc = "api"
    /\ \E cls \in TrainingClasses : training \in ApiInstances(cls)
    /\ info = NoneObject
    /\ stdout = <<>>
    /\ exc = "none"
    /\ called = "none"
    /\ ret = Return(Zero)
    /\ message = NoMessage
    /\ constructed = training
    /\ prev_info = NoneObject

Init == InitLoop \/ InitApi

\* for workout_type, data in packages: training = read_package(...)
ReadPackage ==
    /\ pc = "loop"
    /\ idx <= Len(packages)
    /\ LET r == read_package(packages[idx][1], packages[idx][2])
       IN  IF Raised(r)
           THEN /\ pc' = "raised"
                /\ exc' = r.exc
                /\ UNCHANGED <<training, constructed>>
           ELSE /\ pc' = "main_show"
                /\ training' = r.val
                /\ constructed' = r.val
                /\ UNCHANGED exc
    /\ UNCHANGED <<packages, idx, info, stdout, called, ret, message,
                   prev_info>>

\* main: info = training.show_training_info()
MainShow ==
    /\ pc = "main_show"
    /\ LET r == Call_show_training_info(training)
       IN  IF Raised(r)
           THEN /\ pc' = "raised"
                /\ exc' = r.exc
                /\ UNCHANGED <<training, info>>
           ELSE /\ pc' = "main_print"
                /\ info' = r.val
                /\ training' = SelfAfterCall(training, "show_training_info")
                /\ UNCHANGED exc
    /\ UNCHANGED <<packages, idx, stdout, called, ret, message, constructed,
                   prev_info>>

\* main: print(info.get_message()), then the next package
MainPrint ==
    /\ pc = "main_print"
    /\ stdout' = StdoutAfterWrite(stdout, get_message(info))
    /\ info' = SelfAfterCall(info, "get_message")
    /\ idx' = idx + 1
    /\ pc' = "loop"
    /\ UNCHANGED <<packages, training, exc, called, ret, message,
                   constructed, prev_info>>

\* the list is exhausted: the program ends
LoopEnd ==
    /\ pc = "loop"
    /\ idx > Len(packages)
    /\ pc' = "done"
    /\ UNCHANGED <<packages, idx, training, info, stdout, exc, called, ret,
                   message, constructed, prev_info>>

\* a caller invokes training.get_distance()
CallGetDistance ==
    /\ pc = "api"
    /\ called' = "get_distance"
    /\ ret' = get_distance(training)
    /\ training' = SelfAfterCall(training, "get_distance")
    /\ UNCHANGED <<packages, idx, pc, info, stdout, exc, message,
                   constructed, prev_info>>

\* a caller invokes training.get_mean_speed()
CallGetMeanSpeed ==
    /\ pc = "api"
    /\ called' = "get_mean_speed"
    /\ ret' = get_mean_speed(training)
    /\ training' = SelfAfterCall(training, "get_mean_speed")
    /\ UNCHANGED <<packages, idx, pc, info, stdout, exc, message,
                   constructed, prev_info>>

\* a caller invokes training.get_spent_calories()
CallGetSpentCalories ==
    /\ pc = "api"
    /\ called' = "get_spent_calories"
    /\ ret' = get_spent_calories(training)
    /\ training' = SelfAfterCall(training, "get_spent_calories")
    /\ UNCHANGED <<packages, idx, pc, info, stdout, exc, message,
                   constructed, prev_info>>

\* a caller invokes info = training.show_training_info(); the report, when
\* one is returned, is kept in info
CallShowTrainingInfo ==
    /\ pc = "api"
    /\ called' = "show_training_info"
    /\ LET r == show_training_info(training)
       IN  /\ ret' = [exc |-> r.exc, val |-> Zero]
           /\ info' = IF Raised(r) THEN info ELSE r.val
           /\ prev_info' = IF Raised(r) THEN prev_info ELSE info
    /\ training' = SelfAfterCall(training, "show_training_info")
    /\ UNCHANGED <<packages, idx, pc, stdout, exc, message, constructed>>

\* a caller invokes info.get_message() on the report it holds
CallGetMessage ==
    /\ pc = "api"
    /\ info # NoneObject
    /\ called' = "get_message"
    /\ ret' = Return(Zero)
    /\ message' = get_message(info)
    /\ info' = SelfAfterCall(info, "get_message")
    /\ UNCHANGED <<packages, idx, pc, training, stdout, exc, constructed,
                   prev_info>>

Next ==
    \/ ReadPackage
    \/ MainShow
    \/ MainPrint
    \/ LoopEnd
    \/ CallGetDistance
    \/ CallGetMeanSpeed
    \/ CallGetSpentCalories
    \/ CallShowTrainingInfo
    \/ CallGetMessage

Spec == Init /\ [][Next]_vars

(***************************************************************************)
(* Properties.                                                             *)
(***************************************************************************)
\* the package the loop is at; read_package has been applied to it once pc
\* has left "loop"
InLoopRun == pc \in {"loop", "main_show", "main_print", "raised"}

AtPackage == InLoopRun /\ idx <= Len(packages)

Dispatched == AtPackage /\ pc # "loop"

CurrentCode == packages[idx][1]

CurrentData == packages[idx][2]

\* the number of values each known code needs
ArityMatches ==
    \/ CurrentCode = "SWM" /\ Len(CurrentData) = 5
    \/ CurrentCode = "RUN" /\ Len(CurrentData) = 3
    \/ CurrentCode = "WLK" /\ Len(CurrentData) = 4

\* C1: for a known code and data of the matching length, read_package
\* returns an instance of the mapped class (SWM Swimming, RUN Running, WLK
\* SportsWalking) whose fields are the values of data in the order action,
\* duration, weight, then height (WLK) or length_pool, count_pool (SWM).
C1_ReadPackagePositional ==
    (Dispatched /\ ArityMatches) =>
        /\ CurrentCode = "SWM" =>
             training = [cls |-> "Swimming",
                         fields |-> [action |-> CurrentData[1],
                                     duration |-> CurrentData[2],
                                     weight |-> CurrentData[3],
                                     length_pool |-> CurrentData[4],
                                     count_pool |-> CurrentData[5]]]
        /\ CurrentCode = "RUN" =>
             training = [cls |-> "Running",
                         fields |-> [action |-> CurrentData[1],
                                     duration |-> CurrentData[2],
                                     weight |-> CurrentData[3]]]
        /\ CurrentCode = "WLK" =>
             training = [cls |-> "SportsWalking",
                         fields |-> [action |-> CurrentData[1],
                                     duration |-> CurrentData[2],
                                     weight |-> CurrentData[3],
                                     height |-> CurrentData[4]]]

C1_Witness ==
    /\ pc = "main_show"
    /\ CurrentCode = "SWM"
    /\ CurrentData = <<Whole(1000), Whole(0), Whole(1), Whole(0), Whole(1)>>
    /\ training.cls = "Swimming"
    /\ training.fields.length_pool = Whole(0)
    /\ training.fields.count_pool = Whole(1)

\* C2: for a code outside SWM, RUN, WLK the result of read_package is no
\* Training instance, and main(), given that result, does not end in an
\* exception.
C2_UnknownCodeReportedNotCrash ==
    (Dispatched /\ CurrentCode \notin {"SWM", "RUN", "WLK"}) =>
        /\ training.cls \notin TrainingClasses
        /\ pc # "raised"
        /\ exc = "none"

\* C3: for a known code and data of any other length, read_package raises
\* TypeError: nothing is bound to training, nothing is printed, and the
\* unknown-code text is not returned.
C3_ArityMismatchRaises ==
    (AtPackage /\ pc # "loop" /\ CurrentCode \in {"SWM", "RUN", "WLK"}
        /\ ~ArityMatches) =>
        /\ pc = "raised"
        /\ exc = "TypeError"
        /\ training = NoneObject
        /\ constructed = NoneObject
        /\ stdout = <<>>

C3_Witness ==
    /\ pc = "raised"
    /\ exc = "TypeError"
    /\ CurrentCode = "RUN"
    /\ Len(CurrentData) = 2

\* C4: on an instance of Running, SportsWalking or Swimming whose duration
\* is 0, get_mean_speed(), get_spent_calories() and show_training_info()
\* raise ZeroDivisionError and no InfoMessage is produced; main() on such an
\* instance ends with that error and prints nothing.
C4_ZeroDurationRaises ==
    /\ (/\ pc = "api"
        /\ training.cls \in {"Running", "SportsWalking", "Swimming"}
        /\ training.fields.duration = Whole(0)
        /\ called \in {"get_mean_speed", "get_spent_calories",
                       "show_training_info"}) =>
           /\ ret.exc = "ZeroDivisionError"
           /\ info = NoneObject
    /\ (/\ AtPackage
        /\ pc \in {"main_print", "raised"}
        /\ training.cls \in {"Running", "SportsWalking", "Swimming"}
        /\ training.fields.duration = Whole(0)) =>
           /\ pc = "raised"
           /\ exc = "ZeroDivisionError"
           /\ info = NoneObject
           /\ stdout = <<>>

C4_Witness ==
    /\ pc = "api"
    /\ training.cls = "Running"
    /\ training.fields.duration = Whole(0)
    /\ training.fields.action # Whole(0)
    /\ called = "get_spent_calories"
    /\ ret.exc = "ZeroDivisionError"

\* C5: for the three packages of the __main__ block the report has the class
\* name as label, duration 1, and: Swimming distance 0.9936 = 621/625
\* (printed 0.994),
\* speed 1, calories 336; Running distance 9.75, speed 9.75, calories 699.75;
\* SportsWalking distance 5.85, speed 5.85, calories 157.5 (the floored
\* quotient is 0).
C5_Line(label, distance, speed, calories) ==
    [training_type |-> label,
     duration |-> [neg |-> FALSE, milli |-> 1000],
     distance |-> [neg |-> FALSE, milli |-> distance],
     speed |-> [neg |-> FALSE, milli |-> speed],
     calories |-> [neg |-> FALSE, milli |-> calories]]

C5_DriverReports ==
    (packages = DriverPackages /\ pc = "main_print") =>
        /\ idx = 1 =>
             /\ info.fields = [training_type |-> "Swimming",
                               duration |-> <<1, 1>>,
                               distance |-> <<621, 625>>,
                               speed |-> <<1, 1>>,
                               calories |-> <<336, 1>>]
             /\ get_message(info) = C5_Line("Swimming", 994, 1000, 336000)
        /\ idx = 2 =>
             /\ info.fields = [training_type |-> "Running",
                               duration |-> <<1, 1>>,
                               distance |-> <<39, 4>>,
                               speed |-> <<39, 4>>,
                               calories |-> <<2799, 4>>]
             /\ get_message(info) = C5_Line("Running", 9750, 9750, 699750)
        /\ idx = 3 =>
             /\ info.fields = [training_type |-> "SportsWalking",
                               duration |-> <<1, 1>>,
                               distance |-> <<117, 20>>,
                               speed |-> <<117, 20>>,
                               calories |-> <<315, 2>>]
             /\ get_message(info) =
                    C5_Line("SportsWalking", 5850, 5850, 157500)

C5_Witness ==
    /\ packages = DriverPackages
    /\ pc = "main_print"
    /\ idx = 3
    /\ info.fields.training_type = "SportsWalking"

\* C6: for a SportsWalking instance with non-zero duration and height,
\* get_spent_calories() is
\*   (0.035 * weight + floor(speed^2 / height) * 0.029 * weight) * duration * 60
\* with speed = action * 0.65 / 1000 / duration; when speed^2 < height it is
\* 0.035 * weight * duration * 60.
C6_Speed == Mul(Mul(training.fields.action, <<13, 20000>>),
                Inverse(training.fields.duration))

C6_Quotient == Mul(Mul(C6_Speed, C6_Speed), Inverse(training.fields.height))

C6_WalkingCaloriesFloor ==
    (/\ pc = "api"
     /\ training.cls = "SportsWalking"
     /\ called = "get_spent_calories"
     /\ training.fields.duration # Whole(0)
     /\ training.fields.height # Whole(0)) =>
        /\ ret.exc = "none"
        /\ ret.val =
             Mul(Mul(Add(Mul(<<7, 200>>, training.fields.weight),
                         Mul(Mul(Floor(C6_Quotient), <<29, 1000>>),
                             training.fields.weight)),
                     training.fields.duration),
                 Whole(60))
        /\ Less(Mul(C6_Speed, C6_Speed), training.fields.height) =>
             ret.val = Mul(Mul(Mul(<<7, 200>>, training.fields.weight),
                               training.fields.duration),
                           Whole(60))

C6_Witness ==
    /\ pc = "api"
    /\ training.cls = "SportsWalking"
    /\ called = "get_spent_calories"
    /\ training.fields.duration # Whole(0)
    /\ training.fields.height = Whole(2)
    /\ training.fields.weight # Whole(0)
    /\ Less(Whole(1), C6_Quotient)
    /\ Floor(C6_Quotient) # C6_Quotient
    /\ ret.exc = "none"

\* C7: no call of get_distance(), get_mean_speed(), get_spent_calories(),
\* show_training_info() or get_message() changes a field of the instance: it
\* stays as constructed, and two show_training_info() calls on it give equal
\* reports.
C7_CallsLeaveInstanceUnchanged ==
    /\ training.cls \in TrainingClasses => training = constructed
    /\ (pc = "api" /\ prev_info # NoneObject) =>
          /\ info = prev_info
          /\ info.fields.duration = constructed.fields.duration

C7_Witness ==
    /\ pc = "api"
    /\ prev_info # NoneObject
    /\ info = prev_info
    /\ called = "get_message"
    /\ training.cls = "SportsWalking"
    /\ training = constructed

C9_Labels == <<"Swimming", "Running", "SportsWalking">>

C9_DriverOrder ==
    packages = DriverPackages =>
        /\ exc = "none"
        /\ pc \in {"loop", "main_show", "main_print", "done"}
        /\ idx \in 1..4
        /\ Len(stdout) = idx - 1
        /\ \A k \in 1..Len(stdout) : stdout[k].training_type = C9_Labels[k]
        /\ pc \in {"main_show", "main_print"} =>
             /\ idx <= 3
             /\ training.cls = C9_Labels[idx]
        /\ pc = "main_print" => info.fields.training_type = C9_Labels[idx]
        /\ pc = "done" => (idx = 4 /\ Len(stdout) = 3)

C9_Witness ==
    /\ packages = DriverPackages
    /\ pc = "done"
    /\ Len(stdout) = 3
    /\ stdout[1].training_type = "Swimming"
    /\ stdout[3].training_type = "SportsWalking"

\* C10 as stated: get_spent_calories() and show_training_info() on a
\* directly constructed Training always raise NotImplementedError, and no
\* instance of another class, nor any run of the loop, raises it.
C10_BaseAlwaysNotImplemented ==
    /\ (/\ pc = "api"
        /\ training.cls = "Training"
        /\ called \in {"get_spent_calories", "show_training_info"}) =>
           /\ ret.exc = "NotImplementedError"
           /\ info = NoneObject
    /\ (pc = "api" /\ training.cls # "Training") =>
           ret.exc # "NotImplementedError"
    /\ pc # "api" => exc # "NotImplementedError"

\* C10 amended: get_spent_calories() on a directly constructed Training
\* always raises NotImplementedError; show_training_info() on it raises
\* NotImplementedError when duration is not 0 and ZeroDivisionError when it
\* is 0, and produces no report; no instance of another class, nor any run
\* of the loop, raises NotImplementedError.
C10_BaseNotImplementedUnlessZeroDuration ==
    /\ (/\ pc = "api"
        /\ training.cls = "Training"
        /\ called = "get_spent_calories") =>
           ret.exc = "NotImplementedError"
    /\ (/\ pc = "api"
        /\ training.cls = "Training"
        /\ called = "show_training_info") =>
           /\ info = NoneObject
           /\ training.fields.duration # Whole(0) =>
                ret.exc = "NotImplementedError"
           /\ training.fields.duration = Whole(0) =>
                ret.exc = "ZeroDivisionError"
    /\ (pc = "api" /\ training.cls # "Training") =>
           ret.exc # "NotImplementedError"
    /\ pc # "api" => exc # "NotImplementedError"

C10_Witness ==
    /\ pc = "api"
    /\ training.cls = "Training"
    /\ training.fields.duration = Whole(0)
    /\ called = "show_training_info"
    /\ ret.exc = "ZeroDivisionError"

====
